---- MODULE Spec2Model ----
(***************************************************************************)
(* Model of llama_index/settings.py: the lazily initialised _Settings      *)
(* record, its property getters and setters, the derived properties that   *)
(* delegate to the node parser, the prompt helper and the llm, and the     *)
(* *_from_settings_or_context fallback resolvers.                          *)
(*                                                                         *)
(* Objects are references <<constructor, serial>>: every call of a         *)
(* constructor or resolver yields a reference no earlier call yielded.     *)
(* The mutable attributes of the objects live in heap, so that writing     *)
(* through a reference (chunk_size, num_output, ...) never changes the     *)
(* reference itself.                                                       *)
(***************************************************************************)
EXTENDS Naturals, Sequences, FiniteSets, TLC

\* ---------------------------------------------------------------- bounds

\* Number of property operations performed on the settings object in one run.
MaxOps == 3
\* Number of distinct values a caller passes to a derived-property setter.
NumVals == 1
\* Number of getter/setter calls the two threads of the concurrent run start.
MaxCalls == 2

\* ---------------------------------------------------------------- values

\* Python's None.
None == <<"None", 0>>

\* The value an attribute has when its constructor set it.
InitVal == <<"init", 0>>

\* Values a caller passes to chunk_size, chunk_overlap, num_output,
\* context_window and pydantic_program_mode.
Vals == {<<"arg", k>> : k \in 1..NumVals}

\* The fields of the dataclass.
Fields ==
  {"_llm", "_embed_model", "_callback_manager", "_tokenizer",
   "_node_parser", "_prompt_helper", "_transformations"}

\* The constructors and resolvers the getters call for their defaults.
Ctors ==
  {"resolve_llm", "resolve_embed_model", "CallbackManager", "get_tokenizer",
   "SentenceSplitter", "PromptHelper", "from_llm_metadata", "list"}

\* Objects the caller owns and assigns to the settings.
UserLLMs == {<<"user_llm", 1>>, <<"user_llm", 2>>}
UserEmbedModels == {<<"user_embed_model", 1>>}
UserCallbackManagers == {<<"user_callback_manager", 1>>}
UserTokenizers == {<<"user_tokenizer", 1>>}
\* user_node_parser 1 has chunk_size and chunk_overlap, 2 has neither,
\* 3 has chunk_size only.
UserNodeParsers == {<<"user_node_parser", k>> : k \in 1..3}
UserPromptHelpers == {<<"user_prompt_helper", 1>>}
UserTransformations == {<<"user_list", 1>>}

\* The legacy ServiceContext objects a caller passes to the resolvers.
Contexts == {<<"context", 1>>}

\* context.<name> for a ServiceContext.
ContextAttr(context, name) == <<name, context[2]>>

\* The attributes the settings access on the objects they hold.
LLMAttrs == [pydantic_program_mode |-> InitVal]
\* SentenceSplitter is defined outside settings.py; it carries both a
\* chunk_size and a chunk_overlap.
SplitterAttrs == [chunk_size |-> InitVal, chunk_overlap |-> InitVal]
NoAttrs == <<>>
HelperAttrs(source) ==
  [source |-> source, num_output |-> InitVal, context_window |-> InitVal]
ListAttrs(items) == [items |-> items]

\* The attributes of the caller's objects when the run starts.
UserHeap ==
  [o \in UserLLMs \cup UserEmbedModels \cup UserCallbackManagers
         \cup UserTokenizers \cup UserNodeParsers \cup UserPromptHelpers
         \cup UserTransformations |->
     CASE o \in UserLLMs -> LLMAttrs
       [] o = <<"user_node_parser", 1>> -> SplitterAttrs
       [] o = <<"user_node_parser", 3>> -> [chunk_size |-> InitVal]
       [] o \in UserPromptHelpers -> HelperAttrs(None)
       [] o \in UserTransformations -> ListAttrs(<< <<"user_node_parser", 2>> >>)
       [] OTHER -> NoAttrs]

\* ---------------------------------------------------------------- state

VARIABLES
  Settings,          \* the singleton: field name -> reference (None: absent)
  heap,              \* reference -> attribute name -> value
  calls,             \* constructor -> number of calls made so far
  global_tokenizer,  \* what set_global_tokenizer was last given
  op,                \* the operation performed last
  arg,               \* the value or context it was given (None: nothing)
  ret,               \* what it returned (None for a setter)
  err,               \* the exception it raised ("" when none)
  nops,              \* operations performed
  created,           \* the references the last step constructed
  pc,                \* concurrent run: thread -> statement it is at
  cur,               \* concurrent run: thread -> field its getter works on
  top,               \* concurrent run: thread -> the property it called
  tmp,               \* concurrent run: thread -> the value it holds: what
                     \* it read for an argument, or what a constructor or
                     \* a getter returned and is not yet stored
  assigned           \* field -> value last assigned to it (None: never)

vars ==
  <<Settings, heap, calls, global_tokenizer, op, arg, ret, err, nops, created,
    pc, cur, top, tmp, assigned>>

Threads == {1, 2}

\* The program state an operation works on.
Cur ==
  [s |-> Settings, h |-> heap, c |-> calls, g |-> global_tokenizer,
   a |-> assigned]

\* An operation's outcome: the state it leaves, what it returns or raises.
Out(st, val, e) == [st |-> st, val |-> val, err |-> e]

hasattr(st, o, name) == name \in DOMAIN st.h[o]

getattr(st, o, name) == st.h[o][name]

setattr(st, o, name, v) ==
  [st EXCEPT !.h = [st.h EXCEPT ![o] = [st.h[o] EXCEPT ![name] = v]]]

\* A call of constructor ctor: a reference not seen before, with attrs.
New(st, ctor, attrs) ==
  LET o == <<ctor, st.c[ctor] + 1>>
  IN  [st |-> [st EXCEPT !.c = [st.c EXCEPT ![ctor] = st.c[ctor] + 1],
                         !.h = (o :> attrs) @@ st.h],
       val |-> o]

\* self.<field> = v, in a getter
Store(st, field, v) == [st EXCEPT !.s = [st.s EXCEPT ![field] = v]]

\* self.<field> = v, in a setter: the caller's value
Assign(st, field, v) ==
  [st EXCEPT !.s = [st.s EXCEPT ![field] = v],
             !.a = [st.a EXCEPT ![field] = v]]

\* The default a lazy getter computes for its field.
DefaultCtor ==
  [_llm |-> "resolve_llm", _embed_model |-> "resolve_embed_model",
   _callback_manager |-> "CallbackManager", _tokenizer |-> "get_tokenizer",
   _node_parser |-> "SentenceSplitter"]

DefaultAttrs ==
  [_llm |-> LLMAttrs, _embed_model |-> NoAttrs, _callback_manager |-> NoAttrs,
   _tokenizer |-> NoAttrs, _node_parser |-> SplitterAttrs]

\* The statements of a lazy getter, one by one.
\* "if self.<field> is None:"
lazy_test(st, field) == st.s[field] = None

\* "<default>" of "self.<field> = <default>": the call of the constructor
\* or resolver, which returns the new object.
lazy_call(st, field) == New(st, DefaultCtor[field], DefaultAttrs[field])

\* Faulty variant of lazy_store: tests the field again before storing
\* (double-checked initialisation), which C9 says the code does not do.
lazy_store_checked(st, field, v) ==
  IF st.s[field] = None THEN Store(st, field, v) ELSE st

\* "self.<field> =" of that statement: the store of what the call returned,
\* whatever the field holds by then.
lazy_store(st, field, v) == Store(st, field, v)

\* "return self.<field>"
lazy_return(st, field) == Out(st, st.s[field], "")

\* The whole getter, run by one caller without interruption.
lazy_get(st, field) ==
  IF lazy_test(st, field)
  THEN LET n == lazy_call(st, field)
       IN  lazy_return(lazy_store(n.st, field, n.val), field)
  ELSE lazy_return(st, field)

\* ------------------------------------------------------- property getters

\* Faulty variant of llm: resolves the default on every read.
llm_nocache(st) ==
  LET n == lazy_call(st, "_llm")
  IN  lazy_return(lazy_store(n.st, "_llm", n.val), "_llm")

\* _Settings.llm
llm(st) == lazy_get(st, "_llm")

\* _Settings.embed_model
embed_model(st) == lazy_get(st, "_embed_model")

\* _Settings.callback_manager
callback_manager(st) == lazy_get(st, "_callback_manager")

\* _Settings.tokenizer
tokenizer(st) == lazy_get(st, "_tokenizer")

\* _Settings.node_parser
node_parser(st) == lazy_get(st, "_node_parser")

\* _Settings.text_splitter
text_splitter(st) == node_parser(st)

\* Faulty variant of prompt_helper: never looks at the model.
prompt_helper_ignores_llm(st) ==
  IF st.s["_prompt_helper"] = None
  THEN LET n == New(st, "PromptHelper", HelperAttrs(None))
       IN  Out(Store(n.st, "_prompt_helper", n.val), n.val, "")
  ELSE Out(st, st.s["_prompt_helper"], "")

\* Faulty variant of prompt_helper: reads the model through the llm
\* property, which materializes the default model.
prompt_helper_via_property(st) ==
  IF st.s["_prompt_helper"] = None
  THEN LET l == llm(st)
           n == New(l.st, "from_llm_metadata", HelperAttrs(l.val))
       IN  Out(Store(n.st, "_prompt_helper", n.val), n.val, "")
  ELSE Out(st, st.s["_prompt_helper"], "")

\* The statements of the prompt_helper getter.
\* "self._llm is not None", the first operand of the test of line 182
prompt_helper_test_llm(st) == st.s["_llm"] # None

\* "self._prompt_helper is None", its second operand, read only when the
\* first holds
prompt_helper_test_helper(st) == st.s["_prompt_helper"] = None

\* "if self._llm is not None and self._prompt_helper is None:"
prompt_helper_test(st) ==
  prompt_helper_test_llm(st) /\ prompt_helper_test_helper(st)

\* "self._llm.metadata", the argument of the call of line 183: the metadata
\* of the model the llm field holds when the argument is evaluated
prompt_helper_arg(st) == st.s["_llm"]

\* "PromptHelper.from_llm_metadata(...)", given the model whose metadata the
\* argument was
prompt_helper_call_metadata(st, model) ==
  New(st, "from_llm_metadata", HelperAttrs(model))

\* "elif self._prompt_helper is None:"
prompt_helper_test2(st) == st.s["_prompt_helper"] = None

\* "PromptHelper()"
prompt_helper_call(st) == New(st, "PromptHelper", HelperAttrs(None))

\* _Settings.prompt_helper
prompt_helper(st) ==
  IF prompt_helper_test(st)
  THEN LET n == prompt_helper_call_metadata(st, prompt_helper_arg(st))
       IN  lazy_return(lazy_store(n.st, "_prompt_helper", n.val),
                       "_prompt_helper")
  ELSE IF prompt_helper_test2(st)
  THEN LET n == prompt_helper_call(st)
       IN  lazy_return(lazy_store(n.st, "_prompt_helper", n.val),
                       "_prompt_helper")
  ELSE lazy_return(st, "_prompt_helper")

\* Faulty variant of transformations: puts a parser of its own in the list
\* instead of the settings' node parser.
transformations_own_parser(st) ==
  IF st.s["_transformations"] = None
  THEN LET p == New(st, "SentenceSplitter", SplitterAttrs)
           n == New(p.st, "list", ListAttrs(<<p.val>>))
       IN  Out(Store(n.st, "_transformations", n.val), n.val, "")
  ELSE Out(st, st.s["_transformations"], "")

\* "[self.node_parser]", given what self.node_parser returned
transformations_call(st, parser) == New(st, "list", ListAttrs(<<parser>>))

\* _Settings.transformations
transformations(st) ==
  IF lazy_test(st, "_transformations")
  THEN LET p == node_parser(st)
           n == transformations_call(p.st, p.val)
       IN  lazy_return(lazy_store(n.st, "_transformations", n.val),
                       "_transformations")
  ELSE lazy_return(st, "_transformations")

\* ------------------------------------------------------- property setters

\* Faulty variant of the llm setter: keeps a model already set.
llm_setter_keep(st, v) ==
  IF st.s["_llm"] = None THEN Out(Assign(st, "_llm", v), None, "")
  ELSE Out(st, None, "")

\* Faulty variant of the llm setter: drops the cached prompt helper so that
\* the next read derives it from the new model.
llm_setter_invalidate(st, v) ==
  Out(Store(Assign(st, "_llm", v), "_prompt_helper", None), None, "")

\* _Settings.llm (setter)
llm_setter(st, v) == Out(Assign(st, "_llm", v), None, "")

\* _Settings.embed_model (setter)
embed_model_setter(st, v) == Out(Assign(st, "_embed_model", v), None, "")

\* _Settings.callback_manager (setter)
callback_manager_setter(st, v) ==
  Out(Assign(st, "_callback_manager", v), None, "")

\* "set_global_tokenizer(tokenizer)"
set_global_tokenizer(st, v) == [st EXCEPT !.g = v]

\* _Settings.tokenizer (setter)
tokenizer_setter(st, v) ==
  Out(set_global_tokenizer(Assign(st, "_tokenizer", v), v), None, "")

\* _Settings.node_parser (setter)
node_parser_setter(st, v) == Out(Assign(st, "_node_parser", v), None, "")

\* _Settings.text_splitter (setter)
text_splitter_setter(st, v) == node_parser_setter(st, v)

\* _Settings.prompt_helper (setter)
prompt_helper_setter(st, v) == Out(Assign(st, "_prompt_helper", v), None, "")

\* _Settings.transformations (setter)
transformations_setter(st, v) ==
  Out(Assign(st, "_transformations", v), None, "")

\* ------------------------------------------------------ derived properties

\* _Settings.pydantic_program_mode
pydantic_program_mode(st) ==
  LET l == llm(st)
  IN  Out(l.st, getattr(l.st, l.val, "pydantic_program_mode"), "")

\* _Settings.pydantic_program_mode (setter)
pydantic_program_mode_setter(st, v) ==
  LET l == llm(st)
  IN  Out(setattr(l.st, l.val, "pydantic_program_mode", v), None, "")

\* _Settings.chunk_size
chunk_size(st) ==
  LET p == node_parser(st)
  IN  IF hasattr(p.st, p.val, "chunk_size")
      THEN LET q == node_parser(p.st)
           IN  Out(q.st, getattr(q.st, q.val, "chunk_size"), "")
      ELSE Out(p.st, None, "ValueError")

\* Faulty variant of the chunk_size setter: installs a new splitter of the
\* given size instead of writing to the parser in place.
chunk_size_setter_rebuild(st, v) ==
  LET n == New(st, "SentenceSplitter", [SplitterAttrs EXCEPT !.chunk_size = v])
  IN  Out(Store(n.st, "_node_parser", n.val), None, "")

\* _Settings.chunk_size (setter)
chunk_size_setter(st, v) ==
  LET p == node_parser(st)
  IN  IF hasattr(p.st, p.val, "chunk_size")
      THEN LET q == node_parser(p.st)
           IN  Out(setattr(q.st, q.val, "chunk_size", v), None, "")
      ELSE Out(p.st, None, "ValueError")

\* Faulty variant of chunk_overlap: returns None instead of raising.
chunk_overlap_noraise(st) ==
  LET p == node_parser(st)
  IN  IF hasattr(p.st, p.val, "chunk_overlap")
      THEN Out(p.st, getattr(p.st, p.val, "chunk_overlap"), "")
      ELSE Out(p.st, None, "")

\* _Settings.chunk_overlap
chunk_overlap(st) ==
  LET p == node_parser(st)
  IN  IF hasattr(p.st, p.val, "chunk_overlap")
      THEN LET q == node_parser(p.st)
           IN  Out(q.st, getattr(q.st, q.val, "chunk_overlap"), "")
      ELSE Out(p.st, None, "ValueError")

\* _Settings.chunk_overlap (setter)
chunk_overlap_setter(st, v) ==
  LET p == node_parser(st)
  IN  IF hasattr(p.st, p.val, "chunk_overlap")
      THEN LET q == node_parser(p.st)
           IN  Out(setattr(q.st, q.val, "chunk_overlap", v), None, "")
      ELSE Out(p.st, None, "ValueError")

\* _Settings.num_output
num_output(st) ==
  LET h == prompt_helper(st)
  IN  Out(h.st, getattr(h.st, h.val, "num_output"), "")

\* _Settings.num_output (setter)
num_output_setter(st, v) ==
  LET h == prompt_helper(st)
  IN  Out(setattr(h.st, h.val, "num_output", v), None, "")

\* _Settings.context_window
context_window(st) ==
  LET h == prompt_helper(st)
  IN  Out(h.st, getattr(h.st, h.val, "context_window"), "")

\* _Settings.context_window (setter)
context_window_setter(st, v) ==
  LET h == prompt_helper(st)
  IN  Out(setattr(h.st, h.val, "context_window", v), None, "")

\* ------------------------------------------------------ fallback resolvers

\* Faulty variant of llm_from_settings_or_context: prefers a model the
\* settings already hold to the context's.
llm_from_settings_first(st, context) ==
  IF st.s["_llm"] # None THEN llm(st)
  ELSE IF context # None THEN Out(st, ContextAttr(context, "llm"), "")
  ELSE llm(st)

llm_from_settings_or_context(st, context) ==
  IF context # None THEN Out(st, ContextAttr(context, "llm"), "")
  ELSE llm(st)

embed_model_from_settings_or_context(st, context) ==
  IF context # None THEN Out(st, ContextAttr(context, "embed_model"), "")
  ELSE embed_model(st)

callback_manager_from_settings_or_context(st, context) ==
  IF context # None THEN Out(st, ContextAttr(context, "callback_manager"), "")
  ELSE callback_manager(st)

node_parser_from_settings_or_context(st, context) ==
  IF context # None THEN Out(st, ContextAttr(context, "node_parser"), "")
  ELSE node_parser(st)

prompt_helper_from_settings_or_context(st, context) ==
  IF context # None THEN Out(st, ContextAttr(context, "prompt_helper"), "")
  ELSE prompt_helper(st)

transformations_from_settings_or_context(st, context) ==
  IF context # None THEN Out(st, ContextAttr(context, "transformations"), "")
  ELSE transformations(st)

\* ---------------------------------------------------------------- actions

Init ==
  /\ Settings = [f \in Fields |-> None]
  /\ heap = UserHeap
  /\ calls = [c \in Ctors |-> 0]
  /\ global_tokenizer = None
  /\ op = "init"
  /\ arg = None
  /\ ret = None
  /\ err = ""
  /\ nops = 0
  /\ created = {}
  /\ pc = [t \in Threads |-> "idle"]
  /\ cur = [t \in Threads |-> "_llm"]
  /\ top = [t \in Threads |-> "init"]
  /\ tmp = [t \in Threads |-> None]
  /\ assigned = [f \in Fields |-> None]

\* One call made by the single caller: name is the operation, a its input,
\* out its outcome.
Do(name, a, out) ==
  /\ nops < MaxOps
  /\ Settings' = out.st.s
  /\ heap' = out.st.h
  /\ calls' = out.st.c
  /\ global_tokenizer' = out.st.g
  /\ op' = name
  /\ arg' = a
  /\ ret' = out.val
  /\ err' = out.err
  /\ nops' = nops + 1
  /\ created' = DOMAIN out.st.h \ DOMAIN heap
  /\ assigned' = out.st.a
  /\ UNCHANGED <<pc, cur, top, tmp>>

Get_llm == Do("llm", None, llm(Cur))
Get_embed_model == Do("embed_model", None, embed_model(Cur))
Get_callback_manager == Do("callback_manager", None, callback_manager(Cur))
Get_tokenizer == Do("tokenizer", None, tokenizer(Cur))
Get_node_parser == Do("node_parser", None, node_parser(Cur))
Get_text_splitter == Do("text_splitter", None, text_splitter(Cur))
Get_prompt_helper == Do("prompt_helper", None, prompt_helper(Cur))
Get_transformations == Do("transformations", None, transformations(Cur))

Set_llm == \E v \in UserLLMs : Do("llm=", v, llm_setter(Cur, v))
Set_embed_model ==
  \E v \in UserEmbedModels : Do("embed_model=", v, embed_model_setter(Cur, v))
Set_callback_manager ==
  \E v \in UserCallbackManagers :
    Do("callback_manager=", v, callback_manager_setter(Cur, v))
Set_tokenizer ==
  \E v \in UserTokenizers : Do("tokenizer=", v, tokenizer_setter(Cur, v))
Set_node_parser ==
  \E v \in UserNodeParsers : Do("node_parser=", v, node_parser_setter(Cur, v))
Set_text_splitter ==
  \E v \in UserNodeParsers :
    Do("text_splitter=", v, text_splitter_setter(Cur, v))
Set_prompt_helper ==
  \E v \in UserPromptHelpers :
    Do("prompt_helper=", v, prompt_helper_setter(Cur, v))
Set_transformations ==
  \E v \in UserTransformations :
    Do("transformations=", v, transformations_setter(Cur, v))

Get_pydantic_program_mode ==
  Do("pydantic_program_mode", None, pydantic_program_mode(Cur))
Set_pydantic_program_mode ==
  \E v \in Vals :
    Do("pydantic_program_mode=", v, pydantic_program_mode_setter(Cur, v))
Get_chunk_size == Do("chunk_size", None, chunk_size(Cur))
Set_chunk_size ==
  \E v \in Vals : Do("chunk_size=", v, chunk_size_setter(Cur, v))
Get_chunk_overlap == Do("chunk_overlap", None, chunk_overlap(Cur))
Set_chunk_overlap ==
  \E v \in Vals : Do("chunk_overlap=", v, chunk_overlap_setter(Cur, v))
Get_num_output == Do("num_output", None, num_output(Cur))
Set_num_output ==
  \E v \in Vals : Do("num_output=", v, num_output_setter(Cur, v))
Get_context_window == Do("context_window", None, context_window(Cur))
Set_context_window ==
  \E v \in Vals : Do("context_window=", v, context_window_setter(Cur, v))

Resolve_llm ==
  \E context \in Contexts \cup {None} :
    Do("llm_from_settings_or_context", context,
       llm_from_settings_or_context(Cur, context))
Resolve_embed_model ==
  \E context \in Contexts \cup {None} :
    Do("embed_model_from_settings_or_context", context,
       embed_model_from_settings_or_context(Cur, context))
Resolve_callback_manager ==
  \E context \in Contexts \cup {None} :
    Do("callback_manager_from_settings_or_context", context,
       callback_manager_from_settings_or_context(Cur, context))
Resolve_node_parser ==
  \E context \in Contexts \cup {None} :
    Do("node_parser_from_settings_or_context", context,
       node_parser_from_settings_or_context(Cur, context))
Resolve_prompt_helper ==
  \E context \in Contexts \cup {None} :
    Do("prompt_helper_from_settings_or_context", context,
       prompt_helper_from_settings_or_context(Cur, context))
Resolve_transformations ==
  \E context \in Contexts \cup {None} :
    Do("transformations_from_settings_or_context", context,
       transformations_from_settings_or_context(Cur, context))

Next ==
  \/ Get_llm \/ Get_embed_model \/ Get_callback_manager \/ Get_tokenizer
  \/ Get_node_parser \/ Get_text_splitter \/ Get_prompt_helper
  \/ Get_transformations
  \/ Set_llm \/ Set_embed_model \/ Set_callback_manager \/ Set_tokenizer
  \/ Set_node_parser \/ Set_text_splitter \/ Set_prompt_helper
  \/ Set_transformations
  \/ Get_pydantic_program_mode \/ Set_pydantic_program_mode
  \/ Get_chunk_size \/ Set_chunk_size
  \/ Get_chunk_overlap \/ Set_chunk_overlap
  \/ Get_num_output \/ Set_num_output
  \/ Get_context_window \/ Set_context_window
  \/ Resolve_llm \/ Resolve_embed_model \/ Resolve_callback_manager
  \/ Resolve_node_parser \/ Resolve_prompt_helper \/ Resolve_transformations

Spec == Init /\ [][Next]_vars

\* ------------------------------------------------ two threads, interleaved

\* The concurrent run: two threads call the getters and the setters of the
\* seven fields of one settings object with no lock.  Every step reads or
\* writes at most one field of the settings: a statement
\* "self.<field> = <call>" is the call, which returns the new object to the
\* thread, and then the store of that object into the field; the two
\* operands of the test of line 182 and the argument of the call of line 183
\* are steps of their own.  The derived properties, text_splitter
\* and the resolvers are not called here: each is a call of one of these
\* getters followed by an access to the object it returned.
GetterName ==
  [_llm |-> "llm", _embed_model |-> "embed_model",
   _callback_manager |-> "callback_manager", _tokenizer |-> "tokenizer",
   _node_parser |-> "node_parser", _prompt_helper |-> "prompt_helper",
   _transformations |-> "transformations"]

SetterName ==
  [_llm |-> "llm=", _embed_model |-> "embed_model=",
   _callback_manager |-> "callback_manager=", _tokenizer |-> "tokenizer=",
   _node_parser |-> "node_parser=", _prompt_helper |-> "prompt_helper=",
   _transformations |-> "transformations="]

UserValues ==
  [_llm |-> UserLLMs, _embed_model |-> UserEmbedModels,
   _callback_manager |-> UserCallbackManagers, _tokenizer |-> UserTokenizers,
   _node_parser |-> UserNodeParsers, _prompt_helper |-> UserPromptHelpers,
   _transformations |-> UserTransformations]

\* The statement "self.<field> = <argument>" every setter starts with.
setter_store(st, field, v) == Assign(st, field, v)

\* The call a getter makes for its default, at statement at: the field's
\* constructor, the helper from the model the thread read for the argument,
\* or the list of the parser the thread got from self.node_parser.
construct(st, field, at, held) ==
  CASE field = "_prompt_helper" /\ at = "call_metadata" ->
         prompt_helper_call_metadata(st, held)
    [] field = "_prompt_helper" /\ at = "call" -> prompt_helper_call(st)
    [] field = "_transformations" -> transformations_call(st, held)
    [] OTHER -> lazy_call(st, field)

\* A thread enters the getter of a field.
T_call(t) ==
  \E f \in Fields :
    /\ pc[t] = "idle"
    /\ nops < MaxCalls
    /\ pc' = [pc EXCEPT ![t] = "test"]
    /\ cur' = [cur EXCEPT ![t] = f]
    /\ top' = [top EXCEPT ![t] = GetterName[f]]
    /\ tmp' = [tmp EXCEPT ![t] = None]
    /\ nops' = nops + 1
    /\ created' = {}
    /\ UNCHANGED <<Settings, heap, calls, global_tokenizer, op, arg, ret, err,
                   assigned>>

\* The getter's first test: "if self.<field> is None:", for prompt_helper
\* the first operand of "if self._llm is not None and ...".  The
\* transformations getter goes on into self.node_parser.
T_test(t) ==
  /\ pc[t] = "test"
  /\ IF cur[t] = "_prompt_helper"
     THEN /\ pc' = [pc EXCEPT ![t] = IF prompt_helper_test_llm(Cur)
                                      THEN "test_and" ELSE "test2"]
          /\ cur' = cur
     ELSE IF cur[t] = "_transformations"
     THEN /\ pc' = [pc EXCEPT ![t] = IF lazy_test(Cur, cur[t]) THEN "test"
                                      ELSE "return"]
          /\ cur' = [cur EXCEPT ![t] = IF lazy_test(Cur, cur[t])
                                       THEN "_node_parser" ELSE @]
     ELSE /\ pc' = [pc EXCEPT ![t] = IF lazy_test(Cur, cur[t]) THEN "call"
                                      ELSE "return"]
          /\ cur' = cur
  /\ created' = {}
  /\ UNCHANGED <<Settings, heap, calls, global_tokenizer, op, arg, ret, err,
                 nops, top, tmp, assigned>>

\* "... and self._prompt_helper is None:", the second operand of line 182
T_test_and(t) ==
  /\ pc[t] = "test_and"
  /\ pc' = [pc EXCEPT ![t] = IF prompt_helper_test_helper(Cur)
                             THEN "arg_metadata" ELSE "test2"]
  /\ created' = {}
  /\ UNCHANGED <<Settings, heap, calls, global_tokenizer, op, arg, ret, err,
                 nops, cur, top, tmp, assigned>>

\* "self._llm.metadata": the thread reads the llm field for the argument of
\* the call of line 183.
T_arg(t) ==
  /\ pc[t] = "arg_metadata"
  /\ tmp' = [tmp EXCEPT ![t] = prompt_helper_arg(Cur)]
  /\ pc' = [pc EXCEPT ![t] = "call_metadata"]
  /\ created' = {}
  /\ UNCHANGED <<Settings, heap, calls, global_tokenizer, op, arg, ret, err,
                 nops, cur, top, assigned>>

\* "elif self._prompt_helper is None:"
T_test2(t) ==
  /\ pc[t] = "test2"
  /\ pc' = [pc EXCEPT ![t] = IF prompt_helper_test2(Cur) THEN "call"
                             ELSE "return"]
  /\ created' = {}
  /\ UNCHANGED <<Settings, heap, calls, global_tokenizer, op, arg, ret, err,
                 nops, cur, top, tmp, assigned>>

\* The call on the right of "self.<field> = <default>" returns.
T_construct(t) ==
  /\ pc[t] \in {"call", "call_metadata"}
  /\ LET n == construct(Cur, cur[t], pc[t], tmp[t])
     IN  /\ heap' = n.st.h
         /\ calls' = n.st.c
         /\ created' = DOMAIN n.st.h \ DOMAIN heap
         /\ tmp' = [tmp EXCEPT ![t] = n.val]
  /\ pc' = [pc EXCEPT ![t] = "store"]
  /\ UNCHANGED <<Settings, global_tokenizer, op, arg, ret, err, nops, cur, top,
                 assigned>>

\* The store of "self.<field> = <default>".
T_store(t) ==
  /\ pc[t] = "store"
  /\ Settings' = lazy_store(Cur, cur[t], tmp[t]).s
  /\ pc' = [pc EXCEPT ![t] = "return"]
  /\ created' = {}
  /\ UNCHANGED <<heap, calls, global_tokenizer, op, arg, ret, err, nops, cur,
                 top, tmp, assigned>>

\* "return self.<field>": to the caller, or, from self.node_parser, to the
\* transformations getter, which goes on to build its list.
T_return(t) ==
  /\ pc[t] = "return"
  /\ LET out == lazy_return(Cur, cur[t])
     IN  IF top[t] = "transformations" /\ cur[t] = "_node_parser"
         THEN /\ tmp' = [tmp EXCEPT ![t] = out.val]
              /\ cur' = [cur EXCEPT ![t] = "_transformations"]
              /\ pc' = [pc EXCEPT ![t] = "call"]
              /\ UNCHANGED <<op, arg, ret, err>>
         ELSE /\ ret' = out.val
              /\ err' = out.err
              /\ op' = top[t]
              /\ arg' = None
              /\ pc' = [pc EXCEPT ![t] = "idle"]
              /\ UNCHANGED <<cur, tmp>>
  /\ created' = {}
  /\ UNCHANGED <<Settings, heap, calls, global_tokenizer, nops, top, assigned>>

\* A thread runs the setter of a field: its store, after which the
\* tokenizer setter still has set_global_tokenizer to call.
T_set(t) ==
  \E f \in Fields :
    \E v \in UserValues[f] :
      /\ pc[t] = "idle"
      /\ nops < MaxCalls
      /\ LET st == setter_store(Cur, f, v)
         IN  /\ Settings' = st.s
             /\ assigned' = st.a
      /\ top' = [top EXCEPT ![t] = SetterName[f]]
      /\ tmp' = [tmp EXCEPT ![t] = v]
      /\ IF f = "_tokenizer"
         THEN /\ pc' = [pc EXCEPT ![t] = "set_global"]
              /\ UNCHANGED <<op, arg, ret, err>>
         ELSE /\ pc' = pc
              /\ op' = SetterName[f]
              /\ arg' = v
              /\ ret' = None
              /\ err' = ""
      /\ nops' = nops + 1
      /\ created' = {}
      /\ UNCHANGED <<heap, calls, global_tokenizer, cur>>

\* "set_global_tokenizer(tokenizer)", which ends the tokenizer setter.
T_set_global(t) ==
  /\ pc[t] = "set_global"
  /\ global_tokenizer' = set_global_tokenizer(Cur, tmp[t]).g
  /\ op' = top[t]
  /\ arg' = tmp[t]
  /\ ret' = None
  /\ err' = ""
  /\ pc' = [pc EXCEPT ![t] = "idle"]
  /\ created' = {}
  /\ UNCHANGED <<Settings, heap, calls, nops, cur, top, tmp, assigned>>

NextConc ==
  \E t \in Threads :
    \/ T_call(t)
    \/ T_test(t)
    \/ T_test_and(t)
    \/ T_arg(t)
    \/ T_test2(t)
    \/ T_construct(t)
    \/ T_store(t)
    \/ T_return(t)
    \/ T_set(t)
    \/ T_set_global(t)

SpecConc == Init /\ [][NextConc]_vars

\* ----------------------------------------------------------------- claims

\* The step just taken was one call of operation name by the single caller.
Did(name) == nops' = nops + 1 /\ op' = name

\* The names under which a field is read and assigned.
Getters(f) ==
  IF f = "_node_parser" THEN {"node_parser", "text_splitter"}
  ELSE {GetterName[f]}

Setters(f) ==
  IF f = "_node_parser" THEN {"node_parser=", "text_splitter="}
  ELSE {SetterName[f]}

\* The constructors a field's documented default comes from.
DefaultCtors(f) ==
  CASE f = "_prompt_helper" -> {"PromptHelper", "from_llm_metadata"}
    [] f = "_transformations" -> {"list"}
    [] OTHER -> {DefaultCtor[f]}

\* C1: a read of a field that was never assigned returns the field's
\* documented default, which is cached in the field; when the field was
\* absent the default is built by exactly one new constructor call; and a
\* second read right after a read returns the identical reference without
\* any constructor call.
C1_DefaultThenCached ==
  [][\A f \in Fields :
       /\ (Did(GetterName[f]) /\ assigned[f] = None) =>
            /\ ret'[1] \in DefaultCtors(f)
            /\ Settings'[f] = ret'
            /\ err' = ""
            /\ Settings[f] = None =>
                 /\ ret' \in created'
                 /\ ret' \notin DOMAIN heap
                 /\ calls'[ret'[1]] = calls[ret'[1]] + 1
                 /\ ret'[2] = calls'[ret'[1]]
       /\ (op = GetterName[f] /\ Did(GetterName[f])) =>
            /\ ret' = ret
            /\ calls' = calls
            /\ created' = {}
            /\ Settings' = Settings
    ]_vars

\* C1 witness: llm was read twice in a row on a fresh object and both reads
\* returned the one default the resolver built.
C1_Witness ==
  /\ nops = 2
  /\ op = "llm"
  /\ assigned["_llm"] = None
  /\ calls["resolve_llm"] = 1
  /\ ret = <<"resolve_llm", 1>>
  /\ Settings["_llm"] = ret

\* C2: a read of a field right after an assignment to it (under either of
\* its names) returns exactly the assigned value and calls no constructor,
\* whatever the field held before the assignment.
C2_SetThenGet ==
  [][\A f \in Fields :
       /\ (\E s \in Setters(f) : Did(s)) =>
            /\ arg' # None
            /\ Settings'[f] = arg'
       /\ (op \in Setters(f) /\ \E g \in Getters(f) : Did(g)) =>
            /\ ret' = arg
            /\ err' = ""
            /\ calls' = calls
            /\ created' = {}
    ]_vars

\* C2 witness: llm was defaulted by a read, then assigned, then read again,
\* and the last read returned the assigned model.
C2_Witness ==
  /\ op = "llm"
  /\ calls["resolve_llm"] = 1
  /\ assigned["_llm"] = <<"user_llm", 1>>
  /\ ret = <<"user_llm", 1>>

\* C3: the reference a materialized field holds changes only in a step that
\* assigns that field (node_parser also through text_splitter), and then to
\* the value given.
C3_NeverRedefaulted ==
  [][\A f \in Fields :
       (Settings[f] # None /\ Settings'[f] # Settings[f]) =>
         /\ \E s \in Setters(f) : Did(s)
         /\ Settings'[f] = arg'
    ]_vars

\* C3 witness: chunk_size was assigned through the settings after the parser
\* had been defaulted and the transformations built; the parser and the
\* list are still the ones built first.
C3_Witness ==
  /\ op = "chunk_size="
  /\ err = ""
  /\ Settings["_node_parser"] = <<"SentenceSplitter", 1>>
  /\ Settings["_transformations"] = <<"list", 1>>
  /\ heap[<<"SentenceSplitter", 1>>]["chunk_size"] = arg

\* C4 as stated: at the first read of prompt_helper, never assigned, the
\* helper is built from the model's metadata when llm was assigned before,
\* and is the parameterless PromptHelper() when no assignment to llm has
\* happened yet, whatever reads of llm have happened.
C4_AsStated ==
  [][(Did("prompt_helper") /\ Settings["_prompt_helper"] = None) =>
       IF assigned["_llm"] # None
       THEN /\ ret'[1] = "from_llm_metadata"
            /\ heap'[ret']["source"] = assigned["_llm"]
       ELSE ret'[1] = "PromptHelper"
    ]_vars

\* C4 amended: at the first read of prompt_helper, never assigned, the
\* helper is built from the metadata of the model the llm field holds at
\* that moment, whether that model was assigned or is the default an earlier
\* read materialized; PromptHelper() is used only when the llm field is
\* still absent.
C4_FromCachedLlm ==
  [][(Did("prompt_helper") /\ Settings["_prompt_helper"] = None) =>
       /\ Settings'["_prompt_helper"] = ret'
       /\ ret' \notin DOMAIN heap
       /\ IF Settings["_llm"] # None
          THEN /\ ret'[1] = "from_llm_metadata"
               /\ heap'[ret']["source"] = Settings["_llm"]
          ELSE /\ ret'[1] = "PromptHelper"
               /\ heap'[ret']["source"] = None
    ]_vars

\* C4 witness: llm was never assigned, only read, and the first read of
\* prompt_helper built the helper from the default model's metadata.
C4_Witness ==
  /\ op = "prompt_helper"
  /\ assigned["_llm"] = None
  /\ assigned["_prompt_helper"] = None
  /\ Settings["_llm"] = <<"resolve_llm", 1>>
  /\ ret = <<"from_llm_metadata", 1>>
  /\ heap[ret]["source"] = <<"resolve_llm", 1>>

\* C5: an assignment to llm leaves a materialized prompt_helper the same
\* helper with the same attributes, and an assignment to node_parser or
\* text_splitter leaves materialized transformations the same list with the
\* same items.
C5_NoRebuild ==
  [][/\ (Did("llm=") /\ Settings["_prompt_helper"] # None) =>
          /\ Settings'["_prompt_helper"] = Settings["_prompt_helper"]
          /\ heap'[Settings["_prompt_helper"]] = heap[Settings["_prompt_helper"]]
     /\ ((Did("node_parser=") \/ Did("text_splitter=")) /\
         Settings["_transformations"] # None) =>
          /\ Settings'["_transformations"] = Settings["_transformations"]
          /\ heap'[Settings["_transformations"]] =
               heap[Settings["_transformations"]]
    ]_vars

\* C5 witness: the helper was built with no model, llm was assigned after
\* it, and the helper is still the parameterless one.
C5_Witness ==
  /\ op = "llm="
  /\ Settings["_llm"] = <<"user_llm", 1>>
  /\ Settings["_prompt_helper"] = <<"PromptHelper", 1>>
  /\ heap[<<"PromptHelper", 1>>]["source"] = None

\* The parser a chunk_size or chunk_overlap call works on: the field's
\* parser, or the default the call materializes.
ActiveParser == Settings'["_node_parser"]

\* The one error the settings raise: the ValueError of lines 140, 148, 156
\* and 164, "Configured node parser does not have chunk size / overlap",
\* which is the error kind the specification names UnsupportedOperation.
UnsupportedOperation == "ValueError"

\* What a step of chunk_size or chunk_overlap, read or assigned, does, with
\* kind the error raised when the active parser lacks the attribute.
ChunkContract(kind) ==
  \A a \in {"chunk_size", "chunk_overlap"} :
    LET assign == IF a = "chunk_size" THEN "chunk_size=" ELSE "chunk_overlap="
    IN  /\ Did(a) =>
             IF a \in DOMAIN heap'[ActiveParser]
             THEN /\ err' = ""
                  /\ ret' = heap'[ActiveParser][a]
                  /\ Settings["_node_parser"] # None => heap' = heap
             ELSE /\ err' = kind
                  /\ heap' = heap
        /\ Did(assign) =>
             IF a \in DOMAIN heap'[ActiveParser]
             THEN /\ err' = ""
                  /\ heap'[ActiveParser][a] = arg'
             ELSE /\ err' = kind
                  /\ heap' = heap
        /\ (op = assign /\ err = "" /\ Did(a)) =>
             /\ ret' = arg
             /\ err' = ""

\* C6: chunk_size and chunk_overlap, read or assigned, raise the
\* UnsupportedOperation kind of error when the active parser lacks the
\* attribute and leave every object as it was; else the read returns the
\* parser's value and the assignment writes it onto the parser object, where
\* the next read sees it.
C6_ChunkContract == [][ChunkContract(UnsupportedOperation)]_vars

\* C6 witness: chunk_overlap was read while the parser is one that has a
\* chunk_size and no chunk_overlap, and the read raised.
C6_Witness ==
  /\ op = "chunk_overlap"
  /\ Settings["_node_parser"] = <<"user_node_parser", 3>>
  /\ err = UnsupportedOperation
  /\ ret = None

\* C7: the first read of never assigned transformations returns a new list
\* of exactly one item, the parser the node_parser field holds after the
\* read: the one it held before when it held one, else a new default
\* SentenceSplitter; and a read of node_parser right after returns that
\* item.
C7_TransformationsDefault ==
  [][/\ (Did("transformations") /\ Settings["_transformations"] = None) =>
          /\ ret' \notin DOMAIN heap
          /\ Settings'["_transformations"] = ret'
          /\ Len(heap'[ret']["items"]) = 1
          /\ heap'[ret']["items"][1] = Settings'["_node_parser"]
          /\ IF Settings["_node_parser"] # None
             THEN /\ Settings'["_node_parser"] = Settings["_node_parser"]
                  /\ calls'["SentenceSplitter"] = calls["SentenceSplitter"]
             ELSE /\ Settings'["_node_parser"] =
                       <<"SentenceSplitter", calls["SentenceSplitter"] + 1>>
                  /\ Settings'["_node_parser"] \notin DOMAIN heap
     /\ (op = "transformations" /\ ret \in created /\ Did("node_parser")) =>
          /\ ret' = heap[ret]["items"][1]
          /\ created' = {}
    ]_vars

\* C7 witness: transformations was read on a fresh object and node_parser
\* right after; the parser returned is the list's only item.
C7_Witness ==
  /\ nops = 2
  /\ created = {}
  /\ op = "node_parser"
  /\ ret = <<"SentenceSplitter", 1>>
  /\ Settings["_transformations"] = <<"list", 1>>
  /\ heap[<<"list", 1>>]["items"] = <<ret>>

\* The resolvers, by the field each resolves.
ResolverName ==
  [_llm |-> "llm_from_settings_or_context",
   _embed_model |-> "embed_model_from_settings_or_context",
   _callback_manager |-> "callback_manager_from_settings_or_context",
   _node_parser |-> "node_parser_from_settings_or_context",
   _prompt_helper |-> "prompt_helper_from_settings_or_context",
   _transformations |-> "transformations_from_settings_or_context"]

\* The property read of a field.
getter(st, f) ==
  CASE f = "_llm" -> llm(st)
    [] f = "_embed_model" -> embed_model(st)
    [] f = "_callback_manager" -> callback_manager(st)
    [] f = "_node_parser" -> node_parser(st)
    [] f = "_prompt_helper" -> prompt_helper(st)
    [] f = "_transformations" -> transformations(st)

\* C8: a resolver given a context returns context.X and changes nothing of
\* the settings object; given no context it returns what the property read
\* returns and leaves the state that read leaves.
C8_Resolvers ==
  [][\A f \in DOMAIN ResolverName :
       Did(ResolverName[f]) =>
         IF arg' # None
         THEN /\ ret' = ContextAttr(arg', GetterName[f])
              /\ err' = ""
              /\ created' = {}
              /\ UNCHANGED <<Settings, heap, calls, global_tokenizer, assigned>>
         ELSE /\ ret' = getter(Cur, f).val
              /\ Settings' = getter(Cur, f).st.s
              /\ heap' = getter(Cur, f).st.h
              /\ calls' = getter(Cur, f).st.c
              /\ ret' = Settings'[f]
    ]_vars

\* C8 witness: llm was assigned, and the resolver given a context returned
\* the context's model, not the assigned one.
C8_Witness ==
  /\ op = "llm_from_settings_or_context"
  /\ arg = <<"context", 1>>
  /\ Settings["_llm"] = <<"user_llm", 1>>
  /\ ret = <<"llm", 1>>

\* C9: in the concurrent run, a thread that found the field absent and got
\* its default built stores that default whatever the field holds by then;
\* when another thread has assigned the field in between, the assigned
\* value is replaced by the default.
C9_StaleStoreOverwrites ==
  [][\A t \in Threads :
       (pc[t] = "store" /\ pc'[t] = "return") =>
         /\ tmp[t][1] \in DefaultCtors(cur[t])
         /\ Settings'[cur[t]] = tmp[t]
         /\ (assigned[cur[t]] # None /\ Settings[cur[t]] = assigned[cur[t]]) =>
              Settings'[cur[t]] # assigned'[cur[t]]
    ]_vars

\* C9 witness: llm was assigned a model, no call is in progress, the field
\* holds a default instead, and the read that just returned gave the
\* default.
C9_Witness ==
  /\ \A t \in Threads : pc[t] = "idle"
  /\ assigned["_llm"] = <<"user_llm", 1>>
  /\ Settings["_llm"] = <<"resolve_llm", 1>>
  /\ op = "llm"
  /\ ret = <<"resolve_llm", 1>>

\* The fields an operation may materialize or assign.
Touches(name) ==
  CASE name \in {"llm", "llm=", "pydantic_program_mode",
                 "pydantic_program_mode=", "llm_from_settings_or_context"} ->
         {"_llm"}
    [] name \in {"embed_model", "embed_model=",
                 "embed_model_from_settings_or_context"} -> {"_embed_model"}
    [] name \in {"callback_manager", "callback_manager=",
                 "callback_manager_from_settings_or_context"} ->
         {"_callback_manager"}
    [] name \in {"tokenizer", "tokenizer="} -> {"_tokenizer"}
    [] name \in {"node_parser", "node_parser=", "text_splitter",
                 "text_splitter=", "chunk_size", "chunk_size=",
                 "chunk_overlap", "chunk_overlap=",
                 "node_parser_from_settings_or_context"} -> {"_node_parser"}
    [] name \in {"prompt_helper", "prompt_helper=", "num_output",
                 "num_output=", "context_window", "context_window=",
                 "prompt_helper_from_settings_or_context"} ->
         {"_prompt_helper"}
    [] name \in {"transformations",
                 "transformations_from_settings_or_context"} ->
         {"_transformations", "_node_parser"}
    [] name = "transformations=" -> {"_transformations"}
    [] OTHER -> {}

\* C10: an operation changes only the fields it names and their fixed
\* dependencies; every other field, absent ones included, stays as it was.
\* Reading prompt_helper in particular never materializes llm.
C10_Frame ==
  [][\A f \in Fields :
       Settings'[f] # Settings[f] => (nops' = nops + 1 /\ f \in Touches(op'))
    ]_vars

\* C10 witness: prompt_helper was read and materialized while llm is still
\* absent.
C10_Witness ==
  /\ op = "prompt_helper"
  /\ Settings["_prompt_helper"] = <<"PromptHelper", 1>>
  /\ Settings["_llm"] = None
  /\ calls["resolve_llm"] = 0

====
